---- MODULE Spec2Model ----
(***************************************************************************)
(* Model of the model_db data-access core: db/models.py (tables and their  *)
(* constraints), db/database.py (session factory and the two session       *)
(* scopes) and db/cruds.py (the repository operations).                    *)
(*                                                                         *)
(* The relational engine and the ORM session are modelled by what the code *)
(* relies on: a committed store shared by all sessions, read at READ       *)
(* COMMITTED; a per-session list of pending objects (Session.new) that is  *)
(* written only by commit(), because the factory is built with             *)
(* autoflush=False; and a per-session identity map of loaded Experiment    *)
(* attributes, in which an in-place change of a plain JSON column is not   *)
(* recorded as a change.                                                   *)
(* Columns no branch of cruds.py reads (description, datasets, parameters, *)
(* model_version_id, created_datetime) are left out of the rows.           *)
(***************************************************************************)
EXTENDS Integers, Sequences, FiniteSets, TLC

\* ---------------------------------------------------------------- bounds
\* str(uuid.uuid4())[:6] draws from a finite set; MaxId is its modelled size.
MaxId == 2
Ids == 1..MaxId
\* Objects one session holds in Session.new before it commits.
MaxPending == 2
Sessions == {"s1", "s2"}
Names == {"a", "b"}
Styles == {"get_db", "get_context_db"}

VARIABLES
    projects,     \* committed rows of table "projects"
    models,       \* committed rows of table "models"
    experiments,  \* committed rows of table "experiments"
    session,      \* per caller: the Session object and the scope it lives in
    hist          \* <<previous, last>>: the last completed call as its
                  \* caller saw it and, if it repeats a create, the one before

vars == <<projects, models, experiments, session, hist>>

\* ------------------------------------------------------------ JSON values
Keys == {"accuracy", "f1"}
Vals == {1, 2}
EmptyDict == [k \in {} |-> 1]
NoneJ == [isNone |-> TRUE, d |-> EmptyDict]
Dict(f) == [isNone |-> FALSE, d |-> f]
Dicts == UNION {[K -> Vals] : K \in SUBSET Keys}
JsonValues == {NoneJ} \cup {Dict(f) : f \in Dicts}

\* ------------------------------------------------------------------ rows
Project(id, name) == [project_id |-> id, project_name |-> name]
Model(id, pid, name) == [model_id |-> id, project_id |-> pid, model_name |-> name]
Experiment(id, mid, ev, ap) ==
    [experiment_id |-> id, model_id |-> mid, evaluations |-> ev,
     artifact_file_paths |-> ap]

Obj(t, r) == [table |-> t, row |-> r]

\* ---------------------------------------------------------------- session
\* status: "none" (never acquired), "open", "raising" (an error is on its
\* way out of the scope), "closed".  pc: "idle", or the call that has done
\* its lookup and db.add and has its db.commit() still to run.
NoCall == [op |-> "none"]
\* exit: how the scope was left and how many pending objects it dropped.
NoLoaded == [i \in {} |-> NoneJ]
NoExit == [how |-> "none", dropped |-> 0]
Exit(how, sess) == [how |-> how, dropped |-> Len(sess.new)]
FreshSession(style) ==
    [status |-> "open", style |-> style, new |-> <<>>, loaded |-> NoLoaded,
     pc |-> "idle", call |-> NoCall, exit |-> NoExit]
NoSession ==
    [status |-> "none", style |-> "get_db", new |-> <<>>, loaded |-> NoLoaded,
     pc |-> "idle", call |-> NoCall, exit |-> NoExit]

Ready(s) == session[s].status = "open" /\ session[s].pc = "idle"

\* A repeated create: the same insert-if-absent function called with the
\* same key.
SameCreate(a, b) ==
    /\ a.op = b.op
    /\ \/ a.op = "add_project" /\ a.name = b.name
       \/ /\ a.op = "add_model"
          /\ a.name = b.name
          /\ a.project_id = b.project_id

\* The call completed before the last one is kept when the last one
\* repeats it.
Push(h, r) == <<IF SameCreate(h[2], r) THEN h[2] ELSE NoCall, r>>

\* Rows of table t waiting in Session.new, in the order they were added.
Pending(sess, t) ==
    LET sel == SelectSeq(sess.new, LAMBDA o : o.table = t)
    IN  [i \in 1..Len(sel) |-> sel[i].row]

Range(q) == {q[i] : i \in 1..Len(q)}

\* ------------------------------------------------------- the constraints
\* Mutant: project_name without unique=True.
ProjectsViolateNoUnique(committed, pend) ==
    \/ \E i \in 1..Len(pend) : \E r \in committed :
          r.project_id = pend[i].project_id
    \/ \E i, j \in 1..Len(pend) :
          i # j /\ pend[i].project_id = pend[j].project_id

\* primary_key=True on project_id, unique=True on project_name.
ProjectsViolate(committed, pend) ==
    \/ \E i \in 1..Len(pend) : \E r \in committed :
          \/ r.project_id = pend[i].project_id
          \/ r.project_name = pend[i].project_name
    \/ \E i, j \in 1..Len(pend) :
          /\ i # j
          /\ \/ pend[i].project_id = pend[j].project_id
             \/ pend[i].project_name = pend[j].project_name

\* primary_key=True on model_id, ForeignKey("projects.project_id").
\* There is no unique constraint over (project_id, model_name).
ModelsViolate(committed, pend, parents) ==
    \/ \E i \in 1..Len(pend) : \E r \in committed :
          r.model_id = pend[i].model_id
    \/ \E i, j \in 1..Len(pend) : i # j /\ pend[i].model_id = pend[j].model_id
    \/ \E i \in 1..Len(pend) :
          pend[i].project_id \notin {p.project_id : p \in parents}

\* primary_key=True on experiment_id, ForeignKey("models.model_id").
ExperimentsViolate(committed, pend, parents) ==
    \/ \E i \in 1..Len(pend) : \E r \in committed :
          r.experiment_id = pend[i].experiment_id
    \/ \E i, j \in 1..Len(pend) :
          i # j /\ pend[i].experiment_id = pend[j].experiment_id
    \/ \E i \in 1..Len(pend) :
          pend[i].model_id \notin {m.model_id : m \in parents}

\* The flush of Session.new breaks a constraint whatever order it runs in.
FlushViolates(sess) ==
    LET pp == Pending(sess, "projects")
        pm == Pending(sess, "models")
        pe == Pending(sess, "experiments")
    IN  \/ ProjectsViolate(projects, pp)
        \/ ModelsViolate(models, pm, projects \cup Range(pp))
        \/ ExperimentsViolate(experiments, pe, models \cup Range(pm))

\* No relationship() is declared between the mapped classes, so the flush
\* is free to insert a child before a parent that is itself still pending.
FlushOrderMatters(sess) ==
    LET pm == Pending(sess, "models")
        pe == Pending(sess, "experiments")
    IN  \/ ModelsViolate(models, pm, projects)
        \/ ExperimentsViolate(experiments, pe, models)

CommitOutcomes(sess) ==
    (IF FlushViolates(sess) THEN {} ELSE {"ok"})
    \cup (IF FlushViolates(sess) \/ FlushOrderMatters(sess)
          THEN {"IntegrityError"} ELSE {})

\* ------------------------------------------------------- Session methods
CanAdd(sess) == Len(sess.new) < MaxPending

\* db.add(data)
SessionAdd(sess, t, row) == [sess EXCEPT !.new = Append(@, Obj(t, row))]

\* db.rollback(): pending objects are expunged, loaded state is expired.
SessionRollback(sess) == [sess EXCEPT !.new = <<>>, !.loaded = NoLoaded]

\* db.close(): everything is expunged and the connection goes back.
SessionClose(sess) ==
    [sess EXCEPT !.new = <<>>, !.loaded = NoLoaded, !.status = "closed",
                 !.pc = "idle", !.call = NoCall]

\* What a successful db.commit() leaves in the session (expire_on_commit).
SessionCommitted(sess) ==
    [sess EXCEPT !.new = <<>>, !.loaded = NoLoaded, !.pc = "idle",
                 !.call = NoCall]

\* What a db.commit() whose flush fails leaves: the error is on its way up.
SessionFailed(sess) ==
    [sess EXCEPT !.status = "raising", !.pc = "idle", !.call = NoCall]

\* The tables after the flush of sess.new has been committed.
ProjectsAfter(sess) == projects \cup Range(Pending(sess, "projects"))
ModelsAfter(sess) == models \cup Range(Pending(sess, "models"))
ExperimentsAfter(sess) == experiments \cup Range(Pending(sess, "experiments"))

\* ------------------------------------------------------------ bookkeeping
\* A call that completes while another is between its lookup and its
\* commit overlaps it: that other call is no longer "in sequence".
Overlapped(sess) ==
    IF sess.pc = "idle" THEN sess ELSE [sess EXCEPT !.call.clean = FALSE]

\* Session s becomes sess and the completed call rec is recorded.
Complete(s, sess, rec) ==
    /\ session' = [t \in Sessions |->
                      IF t = s THEN sess ELSE Overlapped(session[t])]
    /\ hist' = Push(hist, rec)

Init ==
    /\ projects = {}
    /\ models = {}
    /\ experiments = {}
    /\ session = [s \in Sessions |-> NoSession]
    /\ hist = <<NoCall, NoCall>>

\* ----------------------------------------------------------- database.py
\* Mutant: db.close() in an else branch instead of finally.
ScopeNoClose(sess, raised) ==
    IF raised
    THEN [SessionRollback(sess) EXCEPT !.exit = Exit("reraised", sess)]
    ELSE [SessionClose(sess) EXCEPT !.exit = Exit("normal", sess)]

\* try: yield db / except: db.rollback(); raise / finally: db.close()
get_db(sess, raised) ==
    IF raised
    THEN [SessionClose(SessionRollback(sess)) EXCEPT
             !.exit = Exit("reraised", sess)]
    ELSE [SessionClose(sess) EXCEPT !.exit = Exit("normal", sess)]

\* The same body under @contextmanager.
get_context_db(sess, raised) ==
    IF raised
    THEN [SessionClose(SessionRollback(sess)) EXCEPT
             !.exit = Exit("reraised", sess)]
    ELSE [SessionClose(sess) EXCEPT !.exit = Exit("normal", sess)]

ScopeExit(sess, raised) ==
    IF sess.style = "get_db" THEN get_db(sess, raised)
    ELSE get_context_db(sess, raised)

\* db = SessionLocal(), up to the yield.
Acquire(s, style) ==
    /\ session[s].status \in {"none", "closed"}
    /\ session' = [session EXCEPT ![s] = FreshSession(style)]
    /\ UNCHANGED <<projects, models, experiments, hist>>

\* The body of the scope raises an error of its own.
CallerRaises(s) ==
    /\ Ready(s)
    /\ session' = [session EXCEPT ![s].status = "raising"]
    /\ UNCHANGED <<projects, models, experiments, hist>>

\* The body of the scope ends: the generator runs its finally.
ExitNormal(s) ==
    /\ Ready(s)
    /\ session' = [session EXCEPT ![s] = ScopeExit(@, FALSE)]
    /\ UNCHANGED <<projects, models, experiments, hist>>

\* An error leaves the scope: except, raise, finally.
ExitError(s) ==
    /\ session[s].status = "raising"
    /\ session' = [session EXCEPT ![s] = ScopeExit(@, TRUE)]
    /\ UNCHANGED <<projects, models, experiments, hist>>

\* The caller's own db.commit(), which makes commit=False inserts durable.
SessionCommit(s) ==
    /\ Ready(s)
    /\ \E out \in CommitOutcomes(session[s]) :
          IF out = "ok"
          THEN /\ projects' = ProjectsAfter(session[s])
               /\ models' = ModelsAfter(session[s])
               /\ experiments' = ExperimentsAfter(session[s])
               /\ Complete(s, SessionCommitted(session[s]),
                           [op |-> "commit", sess |-> s, outcome |-> "returned",
                            flushed |-> session[s].new])
          ELSE /\ UNCHANGED <<projects, models, experiments>>
               /\ Complete(s, SessionFailed(session[s]),
                           [op |-> "commit", sess |-> s, outcome |-> out,
                            flushed |-> session[s].new])

\* --------------------------------------------------------------- cruds.py
select_project_all == projects

\* .filter(...).first(): the set holds the row, or nothing for None.
select_project_by_id(project_id) ==
    {r \in projects : r.project_id = project_id}

\* Mutant: the filter compares the wrong way round.
select_project_by_name_inverted(project_name) ==
    {r \in projects : r.project_name # project_name}

select_project_by_name(project_name) ==
    {r \in projects : r.project_name = project_name}

\* add_project up to and including db.add(data); with commit=False, all of it.
AddProject(s, project_name, commit) ==
    /\ Ready(s)
    /\ LET exists == select_project_by_name(project_name)
           rec(val, ins) ==
               [op |-> "add_project", sess |-> s, name |-> project_name,
                commit |-> commit, outcome |-> "returned", val |-> val,
                inserted |-> ins, clean |-> TRUE,
                pending |-> {r \in Range(Pending(session[s], "projects")) :
                               r.project_name = project_name}]
       IN  IF exists # {}
           THEN /\ Complete(s, session[s], rec(CHOOSE r \in exists : TRUE, FALSE))
                /\ UNCHANGED <<projects, models, experiments>>
           ELSE \E project_id \in Ids :
                  LET data == Project(project_id, project_name)
                      added == SessionAdd(session[s], "projects", data)
                  IN  /\ CanAdd(session[s])
                      /\ IF commit
                         THEN /\ session' = [session EXCEPT ![s] =
                                    [added EXCEPT !.pc = "add_project",
                                                  !.call = rec(data, TRUE)]]
                              /\ hist' = hist
                         ELSE Complete(s, added, rec(data, TRUE))
                      /\ UNCHANGED <<projects, models, experiments>>

\* The commit=True tail shared by the three add_* functions:
\* db.commit(); db.refresh(data); return data.  sess is the session as the
\* call has left it, rec the call, reload what refresh(data) loads.
CommitTail(s, sess, rec, reload) ==
    \E out \in CommitOutcomes(sess) :
      IF out = "ok"
      THEN /\ projects' = ProjectsAfter(sess)
           /\ models' = ModelsAfter(sess)
           /\ experiments' = ExperimentsAfter(sess)
           /\ Complete(s, [SessionCommitted(sess) EXCEPT !.loaded = reload], rec)
      ELSE /\ UNCHANGED <<projects, models, experiments>>
           /\ Complete(s, SessionFailed(sess), [rec EXCEPT !.outcome = out])

\* add_project: db.commit(); db.refresh(data); return data
AddProjectCommit(s) ==
    /\ session[s].status = "open"
    /\ session[s].pc = "add_project"
    /\ CommitTail(s, session[s], session[s].call, NoLoaded)

select_model_all == models

select_model_by_id(model_id) == {r \in models : r.model_id = model_id}

select_model_by_project_id(project_id) ==
    {r \in models : r.project_id = project_id}

select_model_by_name(model_name) == {r \in models : r.model_name = model_name}

\* project = select_project_by_name(...); ... project.project_id ...
\* With no such project, project is None and the attribute access raises.
select_model_by_project_name(project_name) ==
    LET project == select_project_by_name(project_name)
    IN  IF project = {}
        THEN [outcome |-> "AttributeError", val |-> {}]
        ELSE [outcome |-> "returned",
              val |-> {r \in models :
                         \E p \in project : r.project_id = p.project_id}]

SelectModelByProjectName(s, project_name) ==
    /\ Ready(s)
    /\ LET res == select_model_by_project_name(project_name)
           rec == [op |-> "select_model_by_project_name", sess |-> s,
                   name |-> project_name, outcome |-> res.outcome,
                   val |-> res.val]
       IN  Complete(s, IF res.outcome = "returned" THEN session[s]
                       ELSE SessionFailed(session[s]), rec)
    /\ UNCHANGED <<projects, models, experiments>>

\* add_model up to and including db.add(data); with commit=False, all of it.
\* The loop returns the first row of the project with that name.
AddModel(s, project_id, model_name, commit) ==
    /\ Ready(s)
    /\ LET models_in_project == select_model_by_project_id(project_id)
           found == {m \in models_in_project : m.model_name = model_name}
           rec(val, ins) ==
               [op |-> "add_model", sess |-> s, project_id |-> project_id,
                name |-> model_name, commit |-> commit,
                outcome |-> "returned", val |-> val, inserted |-> ins,
                clean |-> TRUE]
       IN  IF found # {}
           THEN /\ \E model \in found : Complete(s, session[s], rec(model, FALSE))
                /\ UNCHANGED <<projects, models, experiments>>
           ELSE \E model_id \in Ids :
                  LET data == Model(model_id, project_id, model_name)
                      added == SessionAdd(session[s], "models", data)
                  IN  /\ CanAdd(session[s])
                      /\ IF commit
                         THEN /\ session' = [session EXCEPT ![s] =
                                    [added EXCEPT !.pc = "add_model",
                                                  !.call = rec(data, TRUE)]]
                              /\ hist' = hist
                         ELSE Complete(s, added, rec(data, TRUE))
                      /\ UNCHANGED <<projects, models, experiments>>

\* add_model: db.commit(); db.refresh(data); return data
AddModelCommit(s) ==
    /\ session[s].status = "open"
    /\ session[s].pc = "add_model"
    /\ CommitTail(s, session[s], session[s].call, NoLoaded)

select_experiment_all == experiments

\* Mutant: the filter on experiment_id is missing.
select_experiment_by_id_unfiltered(experiment_id) == experiments

select_experiment_by_id(experiment_id) ==
    {r \in experiments : r.experiment_id = experiment_id}

select_experiment_by_model_id(model_id) ==
    {r \in experiments : r.model_id = model_id}

\* Mutant: the filter joining the two tables is missing.
select_experiment_by_project_id_unjoined(project_id) ==
    {pair \in experiments \X models : pair[2].project_id = project_id}

\* db.query(Experiment, Model) with the two filters: the rows of the
\* product of the two tables that pass both.
select_experiment_by_project_id(project_id) ==
    {pair \in experiments \X models :
        /\ pair[2].project_id = project_id
        /\ pair[1].model_id = pair[2].model_id}

\* The JSON attributes of an Experiment as the session holds them.
Attrs(row) ==
    [evaluations |-> row.evaluations,
     artifact_file_paths |-> row.artifact_file_paths]

\* A query hands out the object the identity map already holds; a row it
\* does not hold yet is loaded as stored.
Load(sess, rows) ==
    [sess EXCEPT !.loaded =
        [i \in DOMAIN sess.loaded \cup {r.experiment_id : r \in rows} |->
            IF i \in DOMAIN sess.loaded THEN sess.loaded[i]
            ELSE Attrs(CHOOSE r \in rows : r.experiment_id = i)]]

SelectExperimentByProjectId(s, project_id) ==
    /\ Ready(s)
    /\ LET res == select_experiment_by_project_id(project_id)
       IN  Complete(s, Load(session[s], {pair[1] : pair \in res}),
                    [op |-> "select_experiment_by_project_id", sess |-> s,
                     project_id |-> project_id, outcome |-> "returned",
                     val |-> res])
    /\ UNCHANGED <<projects, models, experiments>>

\* add_experiment does no lookup: the whole call is one exchange with the
\* store (or none, with commit=False).
AddExperiment(s, model_id, evaluations, artifact_file_paths, commit) ==
    /\ Ready(s)
    /\ CanAdd(session[s])
    /\ \E experiment_id \in Ids :
          LET data == Experiment(experiment_id, model_id, evaluations,
                                 artifact_file_paths)
              added == SessionAdd(session[s], "experiments", data)
              rec == [op |-> "add_experiment", sess |-> s,
                      model_id |-> model_id, commit |-> commit,
                      outcome |-> "returned", val |-> data, inserted |-> TRUE,
                      clean |-> TRUE]
          IN  IF commit
              THEN CommitTail(s, added, rec, experiment_id :> Attrs(data))
              ELSE /\ Complete(s, added, rec)
                   /\ UNCHANGED <<projects, models, experiments>>

\* new | old, as a dict: for k, v in new.items(): old[k] = v
Merge(old, new) ==
    [k \in DOMAIN old \cup DOMAIN new |->
        IF k \in DOMAIN new THEN new[k] ELSE old[k]]

\* if data.<field> is None: data.<field> = new
\* else: for k, v in new.items(): data.<field>[k] = v
\* The assignment is an attribute event the session records; the item
\* assignments change the loaded dict in place, which the plain JSON
\* column type (no MutableDict) does not report to the session.
update_field(cur, new) ==
    IF cur.isNone
    THEN [value |-> Dict(new), modified |-> TRUE]
    ELSE [value |-> Dict(Merge(cur.d, new)), modified |-> FALSE]

\* The body shared by update_experiment_evaluation and
\* update_experiment_artifact_file_paths, which differ in the field only.
UpdateExperiment(s, op, experiment_id, field, new) ==
    /\ Ready(s)
    /\ LET found == select_experiment_by_id(experiment_id)
           rec == [op |-> op, sess |-> s, experiment_id |-> experiment_id,
                   field |-> field, arg |-> new, outcome |-> "returned",
                   old |-> NoneJ, val |-> NoneJ]
       IN  IF found = {}
           THEN \* data is None: data.<field> raises
                /\ Complete(s, SessionFailed(session[s]),
                            [rec EXCEPT !.outcome = "AttributeError"])
                /\ UNCHANGED <<projects, models, experiments>>
           ELSE LET row == CHOOSE r \in found : TRUE
                    data == Load(session[s], {row}).loaded[row.experiment_id]
                    upd == update_field(data[field], new)
                    stored == IF upd.modified
                              THEN [row EXCEPT ![field] = upd.value]
                              ELSE row
                IN  \E out \in CommitOutcomes(session[s]) :
                      IF out = "ok"
                      THEN /\ projects' = ProjectsAfter(session[s])
                           /\ models' = ModelsAfter(session[s])
                           /\ experiments' =
                                 (ExperimentsAfter(session[s]) \ {row})
                                    \cup {stored}
                           /\ Complete(s,
                                 [SessionCommitted(session[s]) EXCEPT
                                    !.loaded =
                                        row.experiment_id :> Attrs(stored)],
                                 [rec EXCEPT !.old = row[field],
                                             !.val = stored[field]])
                      ELSE /\ UNCHANGED <<projects, models, experiments>>
                           /\ Complete(s, SessionFailed(session[s]),
                                       [rec EXCEPT !.outcome = out])

UpdateExperimentEvaluation(s, experiment_id, evaluations) ==
    UpdateExperiment(s, "update_experiment_evaluation", experiment_id,
                     "evaluations", evaluations)

UpdateExperimentArtifactFilePaths(s, experiment_id, artifact_file_paths) ==
    UpdateExperiment(s, "update_experiment_artifact_file_paths",
                     experiment_id, "artifact_file_paths", artifact_file_paths)

Next ==
    \/ \E s \in Sessions : Acquire(s, "get_db")
    \/ \E s \in Sessions : Acquire(s, "get_context_db")
    \/ \E s \in Sessions : CallerRaises(s)
    \/ \E s \in Sessions : ExitNormal(s)
    \/ \E s \in Sessions : ExitError(s)
    \/ \E s \in Sessions : SessionCommit(s)
    \/ \E s \in Sessions, n \in Names, c \in BOOLEAN : AddProject(s, n, c)
    \/ \E s \in Sessions : AddProjectCommit(s)
    \/ \E s \in Sessions, n \in Names : SelectModelByProjectName(s, n)
    \/ \E s \in Sessions, p \in Ids, n \in Names, c \in BOOLEAN :
          AddModel(s, p, n, c)
    \/ \E s \in Sessions : AddModelCommit(s)
    \/ \E s \in Sessions, p \in Ids : SelectExperimentByProjectId(s, p)
    \/ \E s \in Sessions, m \in Ids, ev \in JsonValues, ap \in JsonValues,
          c \in BOOLEAN : AddExperiment(s, m, ev, ap, c)
    \/ \E s \in Sessions, e \in Ids, d \in Dicts :
          UpdateExperimentEvaluation(s, e, d)
    \/ \E s \in Sessions, e \in Ids, d \in Dicts :
          UpdateExperimentArtifactFilePaths(s, e, d)

Spec == Init /\ [][Next]_vars

\* ------------------------------------------------------------------------
\* The specifications the properties are checked under.  Each next-state
\* relation is Next with the callers and arguments narrowed, so each of
\* their behaviours is a behaviour of Spec.

\* Two callers creating projects with the default commit=True.
NextRace ==
    \/ \E s \in Sessions : Acquire(s, "get_db")
    \/ \E s \in Sessions : ExitNormal(s)
    \/ \E s \in Sessions : ExitError(s)
    \/ \E s \in Sessions, n \in Names : AddProject(s, n, TRUE)
    \/ \E s \in Sessions : AddProjectCommit(s)

SpecRace == Init /\ [][NextRace]_vars

\* One caller composing inserts in its own transaction, in either scope.
NextCompose ==
    \/ \E st \in Styles : Acquire("s1", st)
    \/ CallerRaises("s1")
    \/ ExitNormal("s1")
    \/ ExitError("s1")
    \/ SessionCommit("s1")
    \/ \E n \in Names, c \in BOOLEAN : AddProject("s1", n, c)
    \/ AddProjectCommit("s1")

SpecCompose == Init /\ [][NextCompose]_vars

\* Two callers creating models under the projects one of them creates.
NextModel ==
    \/ \E s \in Sessions : Acquire(s, "get_context_db")
    \/ \E s \in Sessions : ExitNormal(s)
    \/ \E s \in Sessions : ExitError(s)
    \/ \E n \in Names : AddProject("s1", n, TRUE)
    \/ AddProjectCommit("s1")
    \/ \E s \in Sessions, n \in Names : SelectModelByProjectName(s, n)
    \/ \E s \in Sessions, p \in Ids : AddModel(s, p, "a", TRUE)
    \/ \E s \in Sessions : AddModelCommit(s)

SpecModel == Init /\ [][NextModel]_vars

\* One caller filling the three tables and running the join.
NextJoin ==
    \/ Acquire("s1", "get_context_db")
    \/ ExitNormal("s1")
    \/ ExitError("s1")
    \/ \E n \in Names : AddProject("s1", n, TRUE)
    \/ AddProjectCommit("s1")
    \/ \E p \in Ids : AddModel("s1", p, "a", TRUE)
    \/ AddModelCommit("s1")
    \/ \E m \in Ids : AddExperiment("s1", m, NoneJ, NoneJ, TRUE)
    \/ \E p \in Ids : SelectExperimentByProjectId("s1", p)

SpecJoin == Init /\ [][NextJoin]_vars

\* One caller updating the experiments of one model.
OneKey == {[k \in {key} |-> v] : key \in Keys, v \in Vals}

NextUpdate ==
    \/ Acquire("s1", "get_db")
    \/ ExitNormal("s1")
    \/ ExitError("s1")
    \/ AddProject("s1", "a", TRUE)
    \/ AddProjectCommit("s1")
    \/ \E p \in Ids : AddModel("s1", p, "a", TRUE)
    \/ AddModelCommit("s1")
    \/ \E m \in Ids, ev \in {NoneJ, Dict(EmptyDict)} :
          AddExperiment("s1", m, ev, NoneJ, TRUE)
    \/ \E e \in Ids, d \in OneKey : UpdateExperimentEvaluation("s1", e, d)
    \/ \E e \in Ids :
          UpdateExperimentArtifactFilePaths("s1", e, [k \in {"f1"} |-> 1])

SpecUpdate == Init /\ [][NextUpdate]_vars

\* One caller updating experiments by identifier, stored or not.
NextMissing ==
    \/ Acquire("s1", "get_db")
    \/ ExitNormal("s1")
    \/ ExitError("s1")
    \/ AddProject("s1", "a", TRUE)
    \/ AddProjectCommit("s1")
    \/ \E p \in Ids : AddModel("s1", p, "a", TRUE)
    \/ AddModelCommit("s1")
    \/ \E m \in Ids : AddExperiment("s1", m, NoneJ, NoneJ, TRUE)
    \/ \E e \in Ids :
          UpdateExperimentEvaluation("s1", e, [k \in {"accuracy"} |-> 1])
    \/ \E e \in Ids :
          UpdateExperimentArtifactFilePaths("s1", e, [k \in {"f1"} |-> 1])

SpecMissing == Init /\ [][NextMissing]_vars

\* ------------------------------------------------------------------------
\* Properties

IsAddProject(c, n) == c.op = "add_project" /\ c.name = n /\ c.commit

\* C1: when create_project(n) with the default commit=True has returned and
\* the next call to complete is create_project(n) again, begun after the
\* first returned, the second returns the record of the first (the same
\* project_id), inserts nothing, leaves the stored row as it was, and
\* list_projects holds exactly one row named n.
C1_CreateProjectTwice ==
    \A n \in Names :
        (/\ IsAddProject(hist[1], n) /\ hist[1].outcome = "returned"
         /\ IsAddProject(hist[2], n) /\ hist[2].clean)
        => /\ hist[2].outcome = "returned"
           /\ hist[2].val.project_id = hist[1].val.project_id
           /\ ~hist[2].inserted
           /\ hist[2].val = hist[1].val
           /\ {r \in select_project_all : r.project_name = n} = {hist[1].val}

\* The first call inserted the row, the second found it, and another
\* project is stored beside it.
C1_Witness ==
    /\ IsAddProject(hist[1], "a") /\ hist[1].outcome = "returned"
    /\ hist[1].inserted
    /\ IsAddProject(hist[2], "a") /\ hist[2].clean
    /\ hist[2].outcome = "returned"
    /\ hist[1].sess # hist[2].sess
    /\ Cardinality(select_project_all) = 2

\* C5: with two callers racing through lookup, insert and commit, a
\* create_project call with commit=True either returns the one stored row
\* of that name or fails with a constraint violation, and the store never
\* holds two rows with the same project_name.
C5_ConcurrentCreateProject ==
    /\ \A r1, r2 \in projects :
          r1.project_name = r2.project_name => r1 = r2
    /\ (hist[2].op = "add_project" /\ hist[2].commit)
          => \/ /\ hist[2].outcome = "returned"
                /\ {r \in projects : r.project_name = hist[2].name}
                     = {hist[2].val}
             \/ hist[2].outcome = "IntegrityError"

\* Both callers missed in the lookup; the first commit stored the row and
\* the second, with another project_id, was refused.
C5_Witness ==
    /\ hist[1].op = "add_project" /\ hist[2].op = "add_project"
    /\ hist[1].name = hist[2].name
    /\ hist[1].sess # hist[2].sess
    /\ hist[1].outcome = "returned" /\ hist[1].inserted
    /\ ~hist[2].clean
    /\ hist[2].outcome = "IntegrityError"
    /\ hist[2].val.project_id # hist[1].val.project_id
    /\ hist[1].val \in projects

\* C10: two create_project(n, commit=False) calls on one session, the
\* first still pending when the second runs, return the same record and
\* leave one insert pending; and the caller's commit of a session that went
\* through them succeeds.
C10_ComposedCreateIdempotent ==
    /\ (/\ hist[1].op = "add_project" /\ hist[2].op = "add_project"
        /\ ~hist[1].commit /\ ~hist[2].commit
        /\ hist[1].sess = hist[2].sess
        /\ hist[1].name = hist[2].name
        /\ hist[1].val \in hist[2].pending)
       => /\ hist[2].val = hist[1].val
          /\ ~hist[2].inserted
    /\ (/\ hist[2].op = "commit"
        /\ \E i, j \in 1..Len(hist[2].flushed) :
              /\ i # j
              /\ hist[2].flushed[i].table = "projects"
              /\ hist[2].flushed[j].table = "projects"
              /\ hist[2].flushed[i].row.project_name
                    = hist[2].flushed[j].row.project_name)
       => hist[2].outcome = "returned"

ExitStep(s) ==
    session[s].exit.how = "none" /\ session'[s].exit.how # "none"

\* C6: in both scopes, leaving the scope closes the session, drops what it
\* held pending and leaves the committed rows as they are; the exit is
\* marked as re-raising exactly when an error was on its way out; a session
\* is closed by no other step; and an error on its way out is followed by
\* the exit and nothing else.
C6_ScopeExit ==
    [][\A s \in Sessions :
         /\ ExitStep(s) =>
               /\ session'[s].status = "closed"
               /\ session'[s].new = <<>>
               /\ session'[s].style = session[s].style
               /\ (session'[s].exit.how = "reraised")
                     <=> (session[s].status = "raising")
               /\ UNCHANGED <<projects, models, experiments>>
         /\ (session[s].status # "closed" /\ session'[s].status = "closed")
               => ExitStep(s)
         /\ (session[s].status = "raising" /\ session'[s] # session[s])
               => ExitStep(s)
      ]_vars

\* A get_db scope that committed one project, held another pending and
\* was left by an error.
C6_Witness ==
    /\ session["s1"].status = "closed"
    /\ session["s1"].style = "get_db"
    /\ session["s1"].exit.how = "reraised"
    /\ session["s1"].exit.dropped > 0
    /\ projects # {}

IsAddModel(c, p, n) ==
    c.op = "add_model" /\ c.project_id = p /\ c.name = n /\ c.commit

\* C2: when create_model(p, m) has returned and the next call to complete
\* is create_model(p, m) again, begun after the first returned, the second
\* returns the same record, inserts nothing, and one row is stored for
\* (p, m); and a create_model(q, m) that returns a stored record returns one
\* of project q, whose model_id no row of another project has.
C2_CreateModelScoped ==
    \A p \in Ids, n \in Names :
        /\ (/\ IsAddModel(hist[1], p, n) /\ hist[1].outcome = "returned"
            /\ IsAddModel(hist[2], p, n) /\ hist[2].clean)
           => /\ hist[2].outcome = "returned"
              /\ hist[2].val = hist[1].val
              /\ ~hist[2].inserted
              /\ {r \in select_model_by_project_id(p) : r.model_name = n}
                    = {hist[1].val}
        /\ (IsAddModel(hist[2], p, n) /\ hist[2].outcome = "returned")
           => /\ hist[2].val.project_id = p
              /\ hist[2].val \in models
              /\ \A r \in models :
                    r.project_id # p => r.model_id # hist[2].val.model_id

\* C9: no two stored Model rows have the same (project_id, model_name).
C9_ModelNameUniqueInProject ==
    \A m1, m2 \in models :
        (m1.project_id = m2.project_id /\ m1.model_name = m2.model_name)
        => m1 = m2

\* C8: get_models_by_project_name with a name no stored project has
\* returns the empty sequence and raises nothing.
C8_ModelsOfUnknownProjectEmpty ==
    (/\ hist[2].op = "select_model_by_project_name"
     /\ \A r \in projects : r.project_name # hist[2].name)
    => /\ hist[2].outcome = "returned"
       /\ hist[2].val = {}

IsUpdate(c) ==
    c.op \in {"update_experiment_evaluation",
              "update_experiment_artifact_file_paths"}

\* What the field is to become: the argument when it was unset, else the
\* old mapping overridden by the argument.
Overridden(old, new) ==
    IF old.isNone THEN Dict(new) ELSE Dict(Merge(old.d, new))

\* C3: after an update of an existing experiment has returned, the stored
\* field, which is also the field of the refreshed record returned, is the
\* argument if the field was unset and otherwise the old mapping overridden
\* by the argument.
C3_UpdateMerges ==
    (IsUpdate(hist[2]) /\ hist[2].outcome = "returned")
    => /\ hist[2].val = Overridden(hist[2].old, hist[2].arg)
       /\ \A r \in experiments :
             r.experiment_id = hist[2].experiment_id
             => r[hist[2].field] = hist[2].val

\* C4: an update by an experiment_id that no stored experiment has raises
\* to the caller and changes no table.
C4_UpdateMissingFails ==
    [][\A e \in Ids :
         (/\ \A r \in experiments : r.experiment_id # e
          /\ \E s \in Sessions, d \in Dicts :
                \/ UpdateExperimentEvaluation(s, e, d)
                \/ UpdateExperimentArtifactFilePaths(s, e, d))
         => /\ IsUpdate(hist'[2])
            /\ hist'[2].experiment_id = e
            /\ hist'[2].outcome = "AttributeError"
            /\ session'[hist'[2].sess].status = "raising"
            /\ UNCHANGED <<projects, models, experiments>>
      ]_vars

\* The update failed for an identifier that is not stored while another
\* experiment is, and the error is on its way out of the scope.
C4_Witness ==
    /\ IsUpdate(hist[2])
    /\ hist[2].outcome = "AttributeError"
    /\ experiments # {}
    /\ \A r \in experiments : r.experiment_id # hist[2].experiment_id
    /\ session[hist[2].sess].status = "raising"

\* C7: the pairs get_experiments_by_project_id(p) returned are, for each
\* stored experiment whose model belongs to p, that experiment with its own
\* model, once, and nothing else.
C7_JoinExact ==
    hist[2].op = "select_experiment_by_project_id"
    => LET p == hist[2].project_id
           res == hist[2].val
       IN  /\ \A e \in experiments :
                 (\E m \in models :
                     m.model_id = e.model_id /\ m.project_id = p)
                 => Cardinality({pair \in res : pair[1] = e}) = 1
           /\ \A pair \in res :
                 /\ pair[1] \in experiments
                 /\ pair[2] \in models
                 /\ pair[2].model_id = pair[1].model_id
                 /\ pair[2].project_id = p

\* Two models, two experiments, and a result that holds one of the
\* experiments and leaves the other out.
C7_Witness ==
    /\ hist[2].op = "select_experiment_by_project_id"
    /\ Cardinality(models) = 2
    /\ Cardinality(experiments) = 2
    /\ Cardinality(hist[2].val) = 1
    /\ \E e \in experiments : \A pair \in hist[2].val : pair[1] # e

====
